---- MODULE Spec2Model ----
(***************************************************************************)
(* Model of ozz::animation::Skeleton (src/animation/runtime/skeleton.cc):  *)
(* the packed single-buffer allocation (Allocate / Deallocate) and the     *)
(* versioned binary codec (Save / Load).                                   *)
(*                                                                         *)
(* Addresses are integers, NULL is 0.  The heap is a function from the     *)
(* base address of every live allocation to its size.  The contents of    *)
(* the four sub-regions of the skeleton's buffer are kept as sequences.    *)
(* An archive is a flat sequence of typed items.                           *)
(***************************************************************************)
EXTENDS Integers, Sequences, FiniteSets, TLC

VARIABLES
  abi,                \* sizes and alignments of the build (sizeof / OZZ_ALIGN_OF)
  lim,                \* the family of archives the environment supplies
  pc,                 \* position of the (single) calling thread
  frame,              \* locals of the running call
  joint_bind_poses_,  \* Range<math::SoaTransform>: [begin, end]
  joint_names_,       \* Range<char*>:              [begin, end]
  joint_parents_,     \* Range<int16_t>:            [begin, end]
  bind_poses,         \* contents of the bind-pose region
  names,              \* contents of the name-pointer region (addresses)
  parents,            \* contents of the parent-index region
  chars,              \* contents of the character region
  heap,               \* allocation service: live base address -> size
  badFree,            \* a non-null pointer that is not live was released
  archive,            \* the stream: sequence of [t, v] items
  rpos,               \* number of items the running / last Load consumed
  src,                \* where the stream comes from: "none", "input", "saved"
  saved,              \* what the store held when Save wrote the stream
  svc,                \* calls made to the allocation service by the current call
  scan,               \* terminator searches of the current call
  last                \* the call that returned last

vars == <<abi, lim, pc, frame, joint_bind_poses_, joint_names_, joint_parents_,
          bind_poses, names, parents, chars, heap, badFree, archive, rpos, src,
          saved, svc, scan, last>>

store == <<joint_bind_poses_, joint_names_, joint_parents_,
           bind_poses, names, parents, chars>>

-----------------------------------------------------------------------------
(* Bounds of the model. *)

MaxJoints == 3        \* joint counts of arbitrary input archives: 0..MaxJoints
MaxChars == 3         \* chars_count of arbitrary input archives: 0..MaxChars
MaxByte == 1          \* byte values 0..MaxByte; 0 is the string terminator
MaxPose == 1          \* bind-pose block contents 0..MaxPose
MaxOverrun == 1       \* how far past the buffer a runaway strlen may get
MaxBaseIdx == 2       \* the allocation service returns one of MaxBaseIdx bases
RtMaxJoints == 5      \* joint counts of the well-formed archive family
RtMaxExtra == 1       \* name characters (beyond terminators) in that family
LayoutMaxJoints == 9  \* joint counts passed to Allocate directly
LayoutMaxChars == 3   \* chars_size passed to Allocate directly

-----------------------------------------------------------------------------
(* Program constants. *)

NULL == 0
SupportedVersion == 2
Uninit == -2          \* content of memory the skeleton has not written

Terminator == 0

\* Builds: 64-bit and 32-bit pointers; SoaTransform is 10 SIMD float4.
\* Only those that pass the OZZ_STATIC_ASSERT of Allocate are kept.
Platforms ==
  { p \in { [soaSize |-> 160, soaAlign |-> 16, ptrSize |-> 8, ptrAlign |-> 8,
             i16Size |-> 2, i16Align |-> 2, charAlign |-> 1],
            [soaSize |-> 160, soaAlign |-> 16, ptrSize |-> 4, ptrAlign |-> 4,
             i16Size |-> 2, i16Align |-> 2, charAlign |-> 1] } :
      /\ p.soaAlign >= p.ptrAlign
      /\ p.ptrAlign >= p.i16Align
      /\ p.i16Align >= p.charAlign }

-----------------------------------------------------------------------------
(* Helpers. *)

Max(a, b) == IF a >= b THEN a ELSE b

RangeOf(b, e) == [begin |-> b, end |-> e]

\* Range<T>::Clear()
RangeClear == RangeOf(NULL, NULL)

\* Range<T>::Count() for an element size
Count(r, size) == (r.end - r.begin) \div size

\* math::IsAligned
IsAligned(addr, alignment) == addr % alignment = 0

\* Skeleton::num_joints() (declared in skeleton.h)
num_joints == Count(joint_parents_, abi.i16Size)

Fill(n, v) == [k \in 1..n |-> v]

Item(t, v) == [t |-> t, v |-> v]

Items(t, s) == [k \in 1..Len(s) |-> Item(t, s[k])]

-----------------------------------------------------------------------------
(* The allocation service (memory::default_allocator()). *)

\* Distance between the base addresses the service hands out: a multiple of
\* the largest alignment that exceeds every buffer size of the model.
ArenaStride ==
  LET big == (Max(RtMaxJoints, Max(MaxJoints, LayoutMaxJoints)) + 4)
             * (abi.soaSize + abi.ptrSize + abi.i16Size)
             + Max(RtMaxJoints + RtMaxExtra, Max(MaxChars, LayoutMaxChars))
  IN  ((big \div abi.soaAlign) + 1) * abi.soaAlign

FreeBases(size, alignment) ==
  { b \in { k * ArenaStride : k \in 1..MaxBaseIdx } :
      /\ IsAligned(b, alignment)
      /\ \A a \in DOMAIN heap : b + size <= a \/ a + heap[a] <= b }

\* Allocator::Allocate(size, alignment): a free, aligned address; the lowest
\* one when the service is first-fit, any one otherwise.
ServiceAllocate(size, alignment) ==
  IF lim.firstfit
  THEN { b \in FreeBases(size, alignment) :
           \A c \in FreeBases(size, alignment) : b <= c }
  ELSE FreeBases(size, alignment)

\* Allocator::Deallocate(block): releasing NULL releases nothing.
HeapAfterDeallocate(block) ==
  [a \in DOMAIN heap \ {block} |-> heap[a]]

BadDeallocate(block) == block # NULL /\ block \notin DOMAIN heap

AllocateCall(size, alignment, ptr) ==
  [op |-> "Allocate", ptr |-> ptr, size |-> size, alignment |-> alignment]

DeallocateCall(ptr) ==
  [op |-> "Deallocate", ptr |-> ptr, size |-> 0, alignment |-> 0]

-----------------------------------------------------------------------------
(* Skeleton::Allocate *)

\* Variant: the block count is rounded down.
joint_bind_poses_size_Floor(n) == (n \div 4) * abi.soaSize

joint_bind_poses_size(n) == ((n + 3) \div 4) * abi.soaSize

names_size(n) == n * abi.ptrSize

joint_parents_size(n) == n * abi.i16Size

buffer_size(chars_size, n) ==
  names_size(n) + chars_size + joint_parents_size(n) + joint_bind_poses_size(n)

\* Variant: the parent indices are served before the name pointers.
Layout_ParentsFirst(buffer, n) ==
  LET bp == RangeOf(buffer, buffer + joint_bind_poses_size(n))
      pr == RangeOf(bp.end, bp.end + joint_parents_size(n))
      nm == RangeOf(pr.end, pr.end + names_size(n))
  IN  [bind_poses |-> bp, names |-> nm, parents |-> pr, cursor |-> nm.end]

\* The three ranges and the returned cursor for a buffer at address `buffer`.
Layout(buffer, n) ==
  LET bp == RangeOf(buffer, buffer + joint_bind_poses_size(n))
      nm == RangeOf(bp.end, bp.end + names_size(n))
      pr == RangeOf(nm.end, nm.end + joint_parents_size(n))
  IN  [bind_poses |-> bp, names |-> nm, parents |-> pr, cursor |-> pr.end]

\* assert(joint_bind_poses_.size() == 0 && joint_names_.size() == 0 && ...)
StoreEmpty ==
  /\ joint_bind_poses_.end = joint_bind_poses_.begin
  /\ joint_names_.end = joint_names_.begin
  /\ joint_parents_.end = joint_parents_.begin

\* The three assert(math::IsAligned(...)) of Allocate.
LayoutAligned(l) ==
  /\ IsAligned(l.bind_poses.begin, abi.soaAlign)
  /\ IsAligned(l.names.begin, abi.ptrAlign)
  /\ IsAligned(l.parents.begin, abi.i16Align)

\* Allocate(_chars_size, _num_joints) with the service returning `buffer`;
\* `log` holds the calls the caller made to the service before.
Allocate(log, chars_size, n, buffer) ==
  LET l == Layout(buffer, n)
  IN  IF ~StoreEmpty \/ n = 0
      THEN /\ UNCHANGED <<store, heap>>
           /\ svc' = log
      ELSE /\ svc' = Append(log, AllocateCall(buffer_size(chars_size, n),
                                              abi.soaAlign, buffer))
           /\ heap' = [a \in DOMAIN heap \cup {buffer} |->
                         IF a = buffer THEN buffer_size(chars_size, n) ELSE heap[a]]
           /\ joint_bind_poses_' = l.bind_poses
           /\ joint_names_' = l.names
           /\ joint_parents_' = l.parents
           /\ bind_poses' = Fill(Count(l.bind_poses, abi.soaSize), Uninit)
           /\ names' = Fill(Count(l.names, abi.ptrSize), Uninit)
           /\ parents' = Fill(Count(l.parents, abi.i16Size), Uninit)
           /\ chars' = Fill(chars_size, Uninit)

\* Whether every assertion of that call passes.
AllocateAsserts(n, buffer) ==
  /\ StoreEmpty
  /\ n # 0 => LayoutAligned(Layout(buffer, n))

AllocateCursor(n, buffer) == IF n = 0 THEN NULL ELSE Layout(buffer, n).cursor

AllocateBuffers(chars_size, n) ==
  IF n = 0 THEN {NULL} ELSE ServiceAllocate(buffer_size(chars_size, n), abi.soaAlign)

-----------------------------------------------------------------------------
(* Skeleton::Deallocate *)

\* Variant: the views are reset and the buffer is never given back.
Deallocate_NoRelease(log) ==
  /\ svc' = log
  /\ heap' = heap
  /\ badFree' = badFree
  /\ joint_bind_poses_' = RangeClear
  /\ joint_names_' = RangeClear
  /\ joint_parents_' = RangeClear
  /\ bind_poses' = <<>>
  /\ names' = <<>>
  /\ parents' = <<>>
  /\ chars' = <<>>

\* Variant: the service is called only for a non-null buffer.
Deallocate_Guarded(log) ==
  /\ svc' = IF joint_bind_poses_.begin # NULL
            THEN Append(log, DeallocateCall(joint_bind_poses_.begin)) ELSE log
  /\ heap' = HeapAfterDeallocate(joint_bind_poses_.begin)
  /\ badFree' = (badFree \/ BadDeallocate(joint_bind_poses_.begin))
  /\ joint_bind_poses_' = RangeClear
  /\ joint_names_' = RangeClear
  /\ joint_parents_' = RangeClear
  /\ bind_poses' = <<>>
  /\ names' = <<>>
  /\ parents' = <<>>
  /\ chars' = <<>>

Deallocate(log) ==
  /\ svc' = Append(log, DeallocateCall(joint_bind_poses_.begin))
  /\ heap' = HeapAfterDeallocate(joint_bind_poses_.begin)
  /\ badFree' = (badFree \/ BadDeallocate(joint_bind_poses_.begin))
  /\ joint_bind_poses_' = RangeClear
  /\ joint_names_' = RangeClear
  /\ joint_parents_' = RangeClear
  /\ bind_poses' = <<>>
  /\ names' = <<>>
  /\ parents' = <<>>
  /\ chars' = <<>>

-----------------------------------------------------------------------------
(* The character region and std::strlen. *)

\* The character region starts where Allocate's cursor pointed: right after
\* the parent indices.  Offsets are relative to it.
chars_begin == joint_parents_.end

Terminators(off) == { q \in off..(Len(chars) - 1) : chars[q + 1] = Terminator }

HasTerminator(off) == off >= 0 /\ Terminators(off) # {}

FirstTerminator(off) ==
  CHOOSE q \in Terminators(off) : \A r \in Terminators(off) : q <= r

\* std::strlen of the string at offset `off`: `len` is the result and `top`
\* the highest offset it inspected.  With no terminator left in the region
\* it runs off the buffer: it finds a zero byte in the memory that follows,
\* at most MaxOverrun bytes further (and no further than MaxOverrun bytes
\* past the largest input buffer), or the process dies.
Strlen(off) ==
  IF HasTerminator(off)
  THEN { [crash |-> FALSE, len |-> FirstTerminator(off) - off,
          top |-> FirstTerminator(off)] }
  ELSE LET from == Max(off, Len(chars))
       IN  { [crash |-> FALSE, len |-> q - off, top |-> q] :
               q \in { x \in from..(from + MaxOverrun - 1) :
                          x < MaxChars + MaxOverrun } }
           \cup { [crash |-> TRUE, len |-> 0, top |-> from] }

NoScan == [searches |-> 0, top |-> -1]

Scanned(r) == [searches |-> scan.searches + 1, top |-> Max(scan.top, r.top)]

\* The string a name pointer designates, when it is terminated in the region.
StringAt(off) == [k \in 1..(FirstTerminator(off) - off) |-> chars[off + k]]

NameOffset(i) == names[i] - chars_begin

\* Every name pointer designates a null-terminated string of the region.
WellFormedStore ==
  \A i \in 1..Len(names) :
    /\ names[i] # Uninit
    /\ NameOffset(i) < Len(chars)
    /\ HasTerminator(NameOffset(i))

NameStrings ==
  IF WellFormedStore THEN [i \in 1..Len(names) |-> StringAt(NameOffset(i))]
  ELSE <<>>

-----------------------------------------------------------------------------
(* The archive. *)

AnyInput ==
  [wellformed |-> FALSE, joints |-> MaxJoints, chars |-> MaxChars, extra |-> 0,
   firstfit |-> TRUE]

WellFormedInput ==
  [wellformed |-> TRUE, joints |-> RtMaxJoints, chars |-> 0, extra |-> RtMaxExtra,
   firstfit |-> TRUE]

DirectCalls == [AnyInput EXCEPT !.firstfit = FALSE]

JointCounts == { <<n>> : n \in 0..lim.joints }

CharsCounts(n) ==
  IF lim.wellformed THEN { <<c>> : c \in n..(n + lim.extra) }
  ELSE { <<c>> : c \in 0..lim.chars }

\* The buffers of n null-terminated names with `extra` characters in all,
\* every character being the byte 1.
RECURSIVE NameBuffers(_, _)
NameBuffers(n, extra) ==
  IF n = 0 THEN (IF extra = 0 THEN { <<>> } ELSE {})
  ELSE UNION { { name \o <<Terminator>> \o rest :
                   name \in [1..len -> {1}],
                   rest \in NameBuffers(n - 1, extra - len) } :
               len \in 0..extra }

CharBuffers(n, c) ==
  IF lim.wellformed THEN NameBuffers(n, c - n) ELSE [1..c -> 0..MaxByte]

\* Arrays of n elements, all `rest` but at most one, which is any of `values`.
OneOff(n, rest, values) ==
  { [k \in 1..n |-> IF k = j THEN v ELSE rest] : j \in 0..n, v \in values }

\* Parent indices in -1..n-1: every joint a root but at most one.
ParentArrays(n) == OneOff(n, -1, -1..(n - 1))

\* Bind-pose blocks: every block 0 but at most one.
PoseArrays(n) == OneOff(n, 0, 0..MaxPose)

\* IArchive >> : `k` items of type `t`.  An input archive holds whatever the
\* environment put there (one of `choices`); a saved one holds what Save wrote.
Reads(t, k, choices) ==
  IF src = "input"
  THEN { [ok |-> TRUE, v |-> s] : s \in choices }
  ELSE IF /\ rpos + k <= Len(archive)
          /\ \A j \in 1..k : archive[rpos + j].t = t
       THEN { [ok |-> TRUE, v |-> [j \in 1..k |-> archive[rpos + j].v]] }
       ELSE { [ok |-> FALSE, v |-> <<>>] }

Consume(t, r) ==
  /\ archive' = IF src = "input" THEN archive \o Items(t, r.v) ELSE archive
  /\ rpos' = rpos + Len(r.v)

-----------------------------------------------------------------------------
(* Calls and returns. *)

IdleFrame ==
  [version |-> 0, num_joints |-> 0, chars_count |-> 0, cursor |-> NULL, i |-> 0]

NoCall == [op |-> "none", version |-> 0, replay |-> FALSE,
           chars_size |-> 0, num_joints |-> 0, ret |-> NULL]

NoSaved == [valid |-> FALSE, wellformed |-> FALSE, num_joints |-> 0,
            names |-> <<>>, parents |-> <<>>, bind_poses |-> <<>>]

Return(call) ==
  /\ pc' = "idle"
  /\ frame' = IdleFrame
  /\ last' = call

Start(family) ==
  /\ abi \in Platforms
  /\ lim = family
  /\ pc = "idle"
  /\ frame = IdleFrame
  /\ joint_bind_poses_ = RangeClear
  /\ joint_names_ = RangeClear
  /\ joint_parents_ = RangeClear
  /\ bind_poses = <<>>
  /\ names = <<>>
  /\ parents = <<>>
  /\ chars = <<>>
  /\ heap = [a \in {} |-> 0]
  /\ badFree = FALSE
  /\ archive = <<>>
  /\ rpos = 0
  /\ src = "none"
  /\ saved = NoSaved
  /\ svc = <<>>
  /\ scan = NoScan
  /\ last = NoCall

Init == Start(AnyInput)

-----------------------------------------------------------------------------
(* Skeleton::Load, one action per step. *)

LoadCall ==
  [NoCall EXCEPT !.op = "Load", !.version = frame.version,
                 !.replay = (src = "saved")]

StreamError ==
  /\ pc' = "stream_error"
  /\ UNCHANGED <<frame, last>>

\* Load entry: Deallocate().  The stream is either the one Save wrote or a
\* fresh input archive.
LoadDeallocate(version, replay) ==
  /\ pc = "idle"
  /\ replay => src = "saved"
  /\ Deallocate(<<>>)
  /\ frame' = [IdleFrame EXCEPT !.version = version]
  /\ pc' = "load_version"
  /\ rpos' = 0
  /\ scan' = NoScan
  /\ IF replay
     THEN UNCHANGED <<archive, src, saved>>
     ELSE /\ archive' = <<>>
          /\ src' = "input"
          /\ saved' = NoSaved
  /\ UNCHANGED <<abi, lim, last>>

\* Variant: every version from 2 on is accepted.
VersionSupported_AtLeast(version) == version >= SupportedVersion

VersionSupported(version) == version = SupportedVersion

\* if (_version != 2) { log::Err() ...; return; }
LoadVersion ==
  /\ pc = "load_version"
  /\ IF ~VersionSupported(frame.version)
     THEN Return(LoadCall)
     ELSE /\ pc' = "load_num_joints"
          /\ UNCHANGED <<frame, last>>
  /\ UNCHANGED <<abi, lim, store, heap, badFree, archive, rpos, src, saved,
                 svc, scan>>

\* if (!num_joints) return;
LoadEarlyOut(n) == n = 0

\* _archive >> num_joints; if (!num_joints) return;
LoadNumJoints ==
  /\ pc = "load_num_joints"
  /\ \E r \in Reads("i32", 1, JointCounts) :
       /\ Consume("i32", r)
       /\ IF ~r.ok THEN StreamError
          ELSE IF LoadEarlyOut(r.v[1]) THEN Return(LoadCall)
          ELSE /\ pc' = "load_allocate"
               /\ frame' = [frame EXCEPT !.num_joints = r.v[1]]
               /\ last' = last
  /\ UNCHANGED <<abi, lim, store, heap, badFree, src, saved, svc, scan>>

\* _archive >> chars_count; char* cursor = Allocate(chars_count, num_joints);
LoadAllocate ==
  /\ pc = "load_allocate"
  /\ \E r \in Reads("i32", 1, CharsCounts(frame.num_joints)) :
       /\ Consume("i32", r)
       /\ IF ~r.ok
          THEN /\ StreamError
               /\ UNCHANGED <<store, heap, svc>>
          ELSE \E buffer \in AllocateBuffers(r.v[1], frame.num_joints) :
                 /\ Allocate(svc, r.v[1], frame.num_joints, buffer)
                 /\ pc' = IF AllocateAsserts(frame.num_joints, buffer)
                          THEN "load_chars" ELSE "assert_failed"
                 /\ frame' = [frame EXCEPT
                                !.chars_count = r.v[1],
                                !.cursor = AllocateCursor(frame.num_joints, buffer)]
                 /\ last' = last
  /\ UNCHANGED <<abi, lim, badFree, src, saved, scan>>

\* _archive >> ozz::io::MakeArray(cursor, chars_count);
LoadChars ==
  /\ pc = "load_chars"
  /\ \E r \in Reads("char", frame.chars_count,
                    CharBuffers(frame.num_joints, frame.chars_count)) :
       /\ Consume("char", r)
       /\ IF ~r.ok
          THEN /\ StreamError
               /\ chars' = chars
          ELSE /\ chars' = r.v
               /\ pc' = "load_fixup"
               /\ UNCHANGED <<frame, last>>
  /\ UNCHANGED <<abi, lim, joint_bind_poses_, joint_names_, joint_parents_,
                 bind_poses, names, parents, heap, badFree, src, saved, svc, scan>>

\* Variant: the loop also searches the terminator of the last name.
FixupContinues_ToLast(i, n) == i < n

\* i < num_joints - 1
FixupContinues(i, n) == i < n - 1

\* One iteration of: for (int i = 0; i < num_joints - 1; ++i) {
\*   joint_names_[i] = cursor; cursor += std::strlen(joint_names_[i]) + 1; }
LoadFixup ==
  /\ pc = "load_fixup"
  /\ FixupContinues(frame.i, frame.num_joints)
  /\ names' = [names EXCEPT ![frame.i + 1] = frame.cursor]
  /\ \E r \in Strlen(frame.cursor - chars_begin) :
       /\ scan' = Scanned(r)
       /\ IF r.crash
          THEN /\ pc' = "crashed"
               /\ frame' = frame
          ELSE /\ pc' = pc
               /\ frame' = [frame EXCEPT !.cursor = @ + r.len + 1, !.i = @ + 1]
  /\ UNCHANGED <<abi, lim, joint_bind_poses_, joint_names_, joint_parents_,
                 bind_poses, parents, chars, heap, badFree, archive, rpos, src,
                 saved, svc, last>>

\* joint_names_[num_joints - 1] = cursor;
LoadLastName ==
  /\ pc = "load_fixup"
  /\ ~FixupContinues(frame.i, frame.num_joints)
  /\ names' = [names EXCEPT ![frame.num_joints] = frame.cursor]
  /\ pc' = "load_parents"
  /\ UNCHANGED <<abi, lim, frame, joint_bind_poses_, joint_names_, joint_parents_,
                 bind_poses, parents, chars, heap, badFree, archive, rpos, src,
                 saved, svc, scan, last>>

\* _archive >> ozz::io::MakeArray(joint_parents_);
LoadParents ==
  /\ pc = "load_parents"
  /\ \E r \in Reads("i16", Count(joint_parents_, abi.i16Size),
                    ParentArrays(Count(joint_parents_, abi.i16Size))) :
       /\ Consume("i16", r)
       /\ IF ~r.ok
          THEN /\ StreamError
               /\ parents' = parents
          ELSE /\ parents' = r.v
               /\ pc' = "load_poses"
               /\ UNCHANGED <<frame, last>>
  /\ UNCHANGED <<abi, lim, joint_bind_poses_, joint_names_, joint_parents_,
                 bind_poses, names, chars, heap, badFree, src, saved, svc, scan>>

\* _archive >> ozz::io::MakeArray(joint_bind_poses_);
LoadPoses ==
  /\ pc = "load_poses"
  /\ \E r \in Reads("soa", Count(joint_bind_poses_, abi.soaSize),
                    PoseArrays(Count(joint_bind_poses_, abi.soaSize))) :
       /\ Consume("soa", r)
       /\ IF ~r.ok
          THEN /\ StreamError
               /\ bind_poses' = bind_poses
          ELSE /\ bind_poses' = r.v
               /\ Return(LoadCall)
  /\ UNCHANGED <<abi, lim, joint_bind_poses_, joint_names_, joint_parents_,
                 names, parents, chars, heap, badFree, src, saved, svc, scan>>

-----------------------------------------------------------------------------
(* Skeleton::Save *)

\* Variant: Save never stops after the joint count.
SaveEarlyOut_Never(n) == FALSE

\* if (!num_joints) return;
SaveEarlyOut(n) == n = 0

\* Variant: the terminators are not counted.
NameBytes_NoTerminator(len) == len

\* (std::strlen(joint_names_[i]) + 1) * sizeof(char)
NameBytes(len) == len + 1

\* chars_count after the first i iterations of the strlen loop of Save.
RECURSIVE SaveCounts(_)
SaveCounts(i) ==
  IF i = 0 THEN { [crash |-> FALSE, count |-> 0, top |-> -1] }
  ELSE UNION { IF a.crash THEN {a}
               ELSE { [crash |-> r.crash, count |-> a.count + NameBytes(r.len),
                       top |-> Max(a.top, r.top)] : r \in Strlen(NameOffset(i)) } :
               a \in SaveCounts(i - 1) }

\* MakeArray(joint_names_[0], chars_count): the bytes of the region from the
\* first name on; a byte past the region is memory the skeleton never wrote.
SavedBytes(off, count) ==
  [k \in 1..count |-> IF off + k <= Len(chars) THEN chars[off + k] ELSE Uninit]

SavedStore ==
  [valid |-> TRUE, wellformed |-> WellFormedStore, num_joints |-> num_joints,
   names |-> NameStrings, parents |-> parents, bind_poses |-> bind_poses]

SaveCall == [NoCall EXCEPT !.op = "Save"]

Save ==
  /\ pc = "idle"
  /\ IF SaveEarlyOut(num_joints)
     THEN /\ archive' = <<Item("i32", num_joints)>>
          /\ scan' = NoScan
          /\ Return(SaveCall)
     ELSE \E c \in SaveCounts(num_joints) :
            /\ scan' = [searches |-> num_joints, top |-> c.top]
            /\ IF c.crash
               THEN /\ pc' = "crashed"
                    /\ archive' = <<Item("i32", num_joints)>>
                    /\ UNCHANGED <<frame, last>>
               ELSE /\ archive' = <<Item("i32", num_joints), Item("i32", c.count)>>
                                    \o Items("char", SavedBytes(NameOffset(1), c.count))
                                    \o Items("i16", parents)
                                    \o Items("soa", bind_poses)
                    /\ Return(SaveCall)
  /\ src' = "saved"
  /\ rpos' = 0
  /\ saved' = SavedStore
  /\ svc' = <<>>
  /\ UNCHANGED <<abi, lim, store, heap, badFree>>

-----------------------------------------------------------------------------
(* Construction and destruction. *)

\* Skeleton::~Skeleton() { Deallocate(); }
Destroy ==
  /\ pc = "idle"
  /\ Deallocate(<<>>)
  /\ pc' = "destroyed"
  /\ last' = [NoCall EXCEPT !.op = "~Skeleton"]
  /\ scan' = NoScan
  /\ UNCHANGED <<abi, lim, frame, archive, rpos, src, saved>>

\* Skeleton::Skeleton() {}: another skeleton, with empty ranges.
Construct ==
  /\ pc = "destroyed"
  /\ pc' = "idle"
  /\ joint_bind_poses_' = RangeClear
  /\ joint_names_' = RangeClear
  /\ joint_parents_' = RangeClear
  /\ last' = [NoCall EXCEPT !.op = "Skeleton"]
  /\ svc' = <<>>
  /\ UNCHANGED <<abi, lim, frame, bind_poses, names, parents, chars, heap,
                 badFree, archive, rpos, src, saved, scan>>

\* Allocate called on its own (as the skeleton builder does).
AllocateDirect(chars_size, n) ==
  /\ pc = "idle"
  /\ \E buffer \in AllocateBuffers(chars_size, n) :
       /\ Allocate(<<>>, chars_size, n, buffer)
       /\ pc' = IF AllocateAsserts(n, buffer) THEN "idle" ELSE "assert_failed"
       /\ last' = [NoCall EXCEPT !.op = "Allocate", !.chars_size = chars_size,
                                 !.num_joints = n,
                                 !.ret = AllocateCursor(n, buffer)]
  /\ UNCHANGED <<abi, lim, frame, badFree, archive, rpos, src, saved, scan>>

-----------------------------------------------------------------------------
(* Specifications. *)

\* The versions passed to Load: the supported one and its neighbours.
Versions == (SupportedVersion - 1)..(SupportedVersion + 1)

\* Load of the archive Save wrote (`replay`) or of an input archive.
Load(replay) ==
  \/ \E version \in Versions : LoadDeallocate(version, replay)
  \/ LoadVersion
  \/ LoadNumJoints
  \/ LoadAllocate
  \/ LoadChars
  \/ LoadFixup
  \/ LoadLastName
  \/ LoadParents
  \/ LoadPoses

\* Arbitrary input archives, well formed or not, loaded into one skeleton
\* after the other; Save writes what a skeleton holds.
Next == Load(FALSE) \/ Save \/ Destroy \/ Construct

Spec == Init /\ [][Next]_vars

\* Well-formed input archives with more joints; what Save wrote is loaded back.
RoundTripNext == Load(FALSE) \/ Load(TRUE) \/ Save

RoundTripInit == Start(WellFormedInput)

RoundTripSpec == RoundTripInit /\ [][RoundTripNext]_vars

\* Allocate and the destructor alone.
LayoutNext ==
  \/ \E chars_size \in 0..LayoutMaxChars, n \in 0..LayoutMaxJoints :
       AllocateDirect(chars_size, n)
  \/ Destroy
  \/ Construct

LayoutInit == Start(DirectCalls)

LayoutSpec == LayoutInit /\ [][LayoutNext]_vars

-----------------------------------------------------------------------------
(* Properties. *)

Allocations == { k \in 1..Len(svc) : svc[k].op = "Allocate" }

RegionsEmpty ==
  /\ joint_bind_poses_ = RangeClear
  /\ joint_names_ = RangeClear
  /\ joint_parents_ = RangeClear

LoadReturned == pc = "idle" /\ last.op = "Load"

\* C2: a Load with a version other than 2 returns with num_joints() = 0 and
\* the three regions empty, having allocated nothing and read nothing from
\* the archive, whatever the store held before and whatever the archive holds.
C2_VersionRejection ==
  (LoadReturned /\ last.version # SupportedVersion) =>
    /\ num_joints = 0
    /\ RegionsEmpty
    /\ Allocations = {}
    /\ heap = [a \in {} |-> 0]
    /\ rpos = 0

\* A rejected Load of a non-empty saved archive into a populated store.
C2_Witness ==
  /\ LoadReturned
  /\ last.version # SupportedVersion
  /\ last.replay
  /\ Len(archive) > 1
  /\ svc[1].ptr # NULL

\* C3: over any sequence of Loads followed by destruction, the prior buffer
\* is released before a new one is allocated (every allocation of a call
\* comes after its release of the buffer held at entry), the store never
\* holds more than one live buffer, the only live buffer is the one the
\* store holds, no release hits a buffer that is not live, and nothing is
\* live once the store is destroyed.
C3_ReloadHygiene ==
  /\ Cardinality(DOMAIN heap) <= 1
  /\ DOMAIN heap = {joint_bind_poses_.begin} \ {NULL}
  /\ ~badFree
  /\ \A k \in Allocations : k = 2 /\ svc[1].op = "Deallocate"
  /\ pc = "destroyed" => DOMAIN heap = {}

\* A Load into a populated store that released its buffer and took a new one.
C3_Witness ==
  /\ LoadReturned
  /\ Len(svc) = 2
  /\ svc[1].op = "Deallocate"
  /\ svc[1].ptr # NULL
  /\ svc[2].op = "Allocate"
  /\ DOMAIN heap = {svc[2].ptr}

DeallocateRuns == pc = "idle" /\ pc' \in {"load_version", "destroyed"}

\* C10 as stated: Deallocate on an already-empty store makes no release call
\* to the allocation service.
C10_NoCallWhenEmpty ==
  [][(DeallocateRuns /\ joint_bind_poses_.begin = NULL) =>
       \A k \in 1..Len(svc') : svc'[k].op # "Deallocate"]_vars

\* C10, amended: Deallocate calls the allocation service exactly once with the
\* buffer pointer, null or not.  On an already-empty store the pointer is null,
\* nothing is released and the three views stay empty; on a populated store
\* the buffer is released once and the three views are reset to empty.
C10_DeallocateAlwaysCalls ==
  [][DeallocateRuns =>
       /\ svc' = <<DeallocateCall(joint_bind_poses_.begin)>>
       /\ RegionsEmpty'
       /\ IF joint_bind_poses_.begin = NULL
          THEN heap' = heap
          ELSE /\ joint_bind_poses_.begin \in DOMAIN heap
               /\ DOMAIN heap' = DOMAIN heap \ {joint_bind_poses_.begin}]_vars

\* Deallocate has run on an empty store.
C10_Witness ==
  /\ pc = "load_version"
  /\ svc = <<DeallocateCall(NULL)>>
  /\ RegionsEmpty
  /\ DOMAIN heap = {}


\* The joint count the returned Load read from the archive.
JointCountRead == archive[1].v

CeilDiv4(n) == CHOOSE b \in 0..n : 4 * b >= n /\ 4 * (b - 1) < n

InCharRegion(p) == chars_begin <= p /\ p < chars_begin + Len(chars)

FullyPopulated(n) ==
  /\ Len(names) = n
  /\ \A i \in 1..n : names[i] # Uninit /\ InCharRegion(names[i])
  /\ Len(parents) = n
  /\ \A i \in 1..n : parents[i] # Uninit
  /\ Len(bind_poses) = CeilDiv4(n)
  /\ \A i \in 1..Len(bind_poses) : bind_poses[i] # Uninit

\* C4: whenever Load returns, the store is either empty (the three regions of
\* size 0 and no buffer held) or fully populated for the joint count N it
\* read: N name pointers, all assigned to positions inside the character
\* region, N parent indices read and ceil(N/4) bind-pose blocks read.
C4_NoPartialStore ==
  LoadReturned =>
    \/ RegionsEmpty /\ DOMAIN heap = {}
    \/ rpos > 0 /\ FullyPopulated(JointCountRead)

\* C5: for every archive with jointCount >= 1 and every content of its name
\* bytes, every byte the terminator scan of Load inspects lies at an offset
\* strictly below charBytes.
C5_ScanInsideRegion ==
  (frame.num_joints >= 1 /\ pc \in {"load_fixup", "load_parents", "crashed"}) =>
    scan.top < frame.chars_count

\* The character region holds exactly n null-terminated names that fill it.
WellFormedChars(n) ==
  /\ Len(chars) >= 1
  /\ chars[Len(chars)] = Terminator
  /\ Cardinality({ k \in 1..Len(chars) : chars[k] = Terminator }) = n

\* Offset of the k-th terminator of the region.
TerminatorOffset(k) ==
  CHOOSE q \in 0..(Len(chars) - 1) :
    /\ chars[q + 1] = Terminator
    /\ Cardinality({ r \in 0..q : chars[r + 1] = Terminator }) = k

\* Offset at which the i-th name starts (i from 1): the sum over the names
\* before it of their length plus one.
ExpectedOffset(i) == IF i = 1 THEN 0 ELSE TerminatorOffset(i - 1) + 1

\* C9: on a region of exactly jointCount null-terminated names summing to
\* charBytes, Load sets name(i) to the sum over j < i of len(j) + 1, makes
\* exactly jointCount - 1 terminator searches and inspects no byte at an
\* offset >= charBytes.
C9_NameReconstruction ==
  (LoadReturned /\ num_joints >= 1 /\ WellFormedChars(num_joints)) =>
    /\ \A i \in 1..num_joints : NameOffset(i) = ExpectedOffset(i)
    /\ scan.searches = num_joints - 1
    /\ scan.top < Len(chars)

\* A Load of three names, the last one not empty, the last one's
\* terminator being the last byte of the region.
C9_Witness ==
  /\ LoadReturned
  /\ num_joints = 3
  /\ WellFormedChars(3)
  /\ Len(chars) = 4
  /\ NameOffset(2) = 1
  /\ NameOffset(3) = 2
  /\ chars[3] # Terminator
  /\ scan.searches = 2

\* C1: Save of a store of N joints whose names are strings, followed by
\* Load(version 2) of the written archive into any store, yields the same
\* joint count, the same name strings in order, the same parent indices and
\* the same ceil(N/4) bind-pose blocks.
C1_RoundTrip ==
  (LoadReturned /\ last.replay /\ last.version = SupportedVersion
     /\ saved.valid /\ saved.wellformed) =>
    /\ num_joints = saved.num_joints
    /\ NameStrings = saved.names
    /\ Len(NameStrings) = saved.num_joints
    /\ parents = saved.parents
    /\ bind_poses = saved.bind_poses
    /\ Len(bind_poses) = CeilDiv4(saved.num_joints)

\* Five joints (two blocks), a name that is not empty, a joint that is not a
\* root, loaded back into a store that was populated.
C1_Witness ==
  /\ LoadReturned /\ last.replay /\ last.version = SupportedVersion
  /\ saved.valid /\ saved.wellformed
  /\ saved.num_joints = 5
  /\ num_joints = 5
  /\ Len(bind_poses) = 2
  /\ \E i \in 1..5 : Len(saved.names[i]) > 0
  /\ \E i \in 1..5 : saved.parents[i] = 4
  /\ svc[1].ptr # NULL

\* C6: Save of a store without joints writes one 32-bit integer 0 and nothing
\* else; Load(version 2) of that record reads that integer only, allocates
\* nothing and leaves the store empty.
C6_EmptyRecord ==
  /\ (pc = "idle" /\ last.op = "Save" /\ num_joints = 0) =>
       archive = <<Item("i32", 0)>>
  /\ (LoadReturned /\ last.replay /\ last.version = SupportedVersion
        /\ saved.valid /\ saved.num_joints = 0) =>
       /\ rpos = 1
       /\ Allocations = {}
       /\ RegionsEmpty
       /\ DOMAIN heap = {}
       /\ num_joints = 0

\* The empty record was saved and loaded back.
C6_Witness ==
  /\ LoadReturned /\ last.replay /\ last.version = SupportedVersion
  /\ saved.valid /\ saved.num_joints = 0
  /\ archive = <<Item("i32", 0)>>
  /\ rpos = 1


\* Allocate was called on an empty store for at least one joint.
AllocateReturned == last.op = "Allocate" /\ last.num_joints >= 1 /\ svc # <<>>

\* C7: for every jointCount >= 1 and charBytes >= 0, with the buffer aligned
\* to the bind-pose block alignment, the starts of the bind-pose, name-pointer
\* and parent-index regions are multiples of their element type's alignment,
\* and none of the three alignment assertions of Allocate fails.
C7_Alignment ==
  (AllocateReturned /\ IsAligned(svc[1].ptr, abi.soaAlign)) =>
    /\ joint_bind_poses_.begin % abi.soaAlign = 0
    /\ joint_names_.begin % abi.ptrAlign = 0
    /\ joint_parents_.begin % abi.i16Align = 0
    /\ pc = "idle"

\* Five joints and three name bytes with 8-byte pointers.
C7_Witness ==
  /\ AllocateReturned
  /\ pc = "idle"
  /\ last.num_joints = 5
  /\ last.chars_size = 3
  /\ abi.ptrAlign = 8
  /\ joint_names_.begin # NULL

\* C8: for every jointCount >= 1 and charBytes >= 0, Allocate requests one
\* allocation of ceil(jointCount/4) * sizeof(block) + jointCount * sizeof(view)
\* + jointCount * sizeof(int16) + charBytes bytes and places bind poses, name
\* pointers and parent indices in that order, each where the previous one
\* ends; the returned cursor is where the parent indices end, and charBytes
\* bytes from it end where the allocation ends.
C8_ArenaLayout ==
  AllocateReturned =>
    LET n == last.num_joints
        base == svc[1].ptr
        blocks == CeilDiv4(n)
    IN  /\ Len(svc) = 1
        /\ svc[1].op = "Allocate"
        /\ svc[1].size = blocks * abi.soaSize + n * abi.ptrSize
                         + n * abi.i16Size + last.chars_size
        /\ DOMAIN heap = {base}
        /\ heap[base] = svc[1].size
        /\ joint_bind_poses_ = RangeOf(base, base + blocks * abi.soaSize)
        /\ joint_names_ =
             RangeOf(joint_bind_poses_.end, joint_bind_poses_.end + n * abi.ptrSize)
        /\ joint_parents_ =
             RangeOf(joint_names_.end, joint_names_.end + n * abi.i16Size)
        /\ last.ret = joint_parents_.end
        /\ last.ret + last.chars_size = base + svc[1].size

\* Nine joints (three blocks) and two name bytes.
C8_Witness ==
  /\ AllocateReturned
  /\ pc = "idle"
  /\ last.num_joints = 9
  /\ last.chars_size = 2
  /\ joint_bind_poses_.end - joint_bind_poses_.begin = 3 * abi.soaSize
  /\ last.ret # NULL

====
